---- MODULE Spec2Model ----
(***************************************************************************)
(* A model of terraform-provider-sanity: the provider's Configure, the     *)
(* project, CORS origin and dataset resources and the project data source, *)
(* run by a host against the Sanity backend.                               *)
(*                                                                         *)
(* Strings are sequences of one-character strings, so that formatting,     *)
(* parsing and splitting are computed and not assumed.  A framework value  *)
(* (types.String, types.Bool) is the record of its Go fields Null, Unknown *)
(* and Value.  Every handler is one action: it reads the request, makes    *)
(* its backend calls in the order of the code and writes the response.     *)
(* A behaviour follows one component instance (scope), since components    *)
(* share nothing but the client handle, under one framework.               *)
(***************************************************************************)
EXTENDS Naturals, Sequences, FiniteSets

VARIABLES scope, env, marksUnknown, phase, providerData, client, backend, state, last

vars == <<scope, env, marksUnknown, phase, providerData, client, backend, state, last>>

(* ------------------------------ bounds -------------------------------- *)

\* Projects the backend will create in one behaviour.
MaxProjects == 1
\* CORS entries the backend provisions by itself when a project is created.
MaxDefaultCors == 2
\* CORS entries the backend will create on request in one behaviour.
MaxCorsCreates == 1
\* Optional attributes a sanity_project configuration sets at once.
MaxConfigured == 1

(* ------------------------------ strings ------------------------------- *)

EmptyStr == <<>>
Digits == <<"0", "1", "2", "3", "4", "5", "6", "7", "8", "9">>

DigitValue(c) == CHOOSE d \in 0..9 : Digits[d + 1] = c

IsDigit(c) == \E d \in 0..9 : Digits[d + 1] = c

RECURSIVE Sprintf_d(_)
\* fmt.Sprintf("%d", n) for n >= 0
Sprintf_d(n) ==
    IF n < 10 THEN <<Digits[n + 1]>>
    ELSE Sprintf_d(n \div 10) \o <<Digits[(n % 10) + 1]>>

RECURSIVE ScanDigits(_, _)
\* the value of the longest prefix of digits of s, continuing from acc
ScanDigits(s, acc) ==
    IF s = <<>> \/ ~IsDigit(Head(s)) THEN acc
    ELSE ScanDigits(Tail(s), 10 * acc + DigitValue(Head(s)))

\* fmt.Sscanf(s, "%d", &rawId): an integer is read from the leading digits
\* and what follows them is left unread; no leading digit is an error.
Sscanf_d(s) ==
    IF s = <<>> \/ ~IsDigit(Head(s))
    THEN [ok |-> FALSE, value |-> 0]
    ELSE [ok |-> TRUE, value |-> ScanDigits(s, 0)]

(* -------------------------- framework values -------------------------- *)

StringNull == [Null |-> TRUE, Unknown |-> FALSE, Value |-> EmptyStr]
StringUnknown == [Null |-> FALSE, Unknown |-> TRUE, Value |-> EmptyStr]
StringValue(v) == [Null |-> FALSE, Unknown |-> FALSE, Value |-> v]

BoolNull == [Null |-> TRUE, Unknown |-> FALSE, Value |-> FALSE]
BoolUnknown == [Null |-> FALSE, Unknown |-> TRUE, Value |-> FALSE]
BoolValue(b) == [Null |-> FALSE, Unknown |-> FALSE, Value |-> b]

\* A diagnostic list is kept as: has it an error, has it a warning, and
\* the summary of its first entry.
NoDiag == [error |-> FALSE, warning |-> FALSE, summary |-> "", detail |-> ""]
ErrorDiag(summary, detail) ==
    [error |-> TRUE, warning |-> FALSE, summary |-> summary, detail |-> detail]
WarningDiag(summary, detail) ==
    [error |-> FALSE, warning |-> TRUE, summary |-> summary, detail |-> detail]

(* ------------------------------ provider ------------------------------ *)

\* What the provider publishes and a component's Configure receives: nil,
\* a *sanity.Client built from a token, or a value of some other type.
NilData == [kind |-> "nil", token |-> EmptyStr]
ClientData(token) == [kind |-> "client", token |-> token]

\* The component's client field.
NilClient == [set |-> FALSE, token |-> EmptyStr]

EnvTokens == {EmptyStr, <<"e">>}
ConfigTokens == {StringNull, StringUnknown, StringValue(EmptyStr), StringValue(<<"t">>)}

\* Configure without the check for an empty token.
SanityProviderConfigure_NoEmptyCheck(token, sanityToken) ==
    IF token.Unknown
    THEN [diag |-> WarningDiag("Unable to create client", "Cannot use unknown value as token"),
          DataSourceData |-> NilData, ResourceData |-> NilData]
    ELSE LET t == IF token.Null THEN sanityToken ELSE token.Value
         IN  [diag |-> NoDiag,
              DataSourceData |-> ClientData(t), ResourceData |-> ClientData(t)]

\* SanityProvider.Configure: token is config.Token, sanityToken is the
\* value of the environment variable SANITY_TOKEN.
SanityProviderConfigure(token, sanityToken) ==
    IF token.Unknown
    THEN [diag |-> WarningDiag("Unable to create client", "Cannot use unknown value as token"),
          DataSourceData |-> NilData, ResourceData |-> NilData]
    ELSE LET t == IF token.Null THEN sanityToken ELSE token.Value
         IN  IF t = EmptyStr
             THEN [diag |-> ErrorDiag("Unable to find token", "Token cannot be an empty string"),
                   DataSourceData |-> NilData, ResourceData |-> NilData]
             ELSE [diag |-> NoDiag,
                   DataSourceData |-> ClientData(t), ResourceData |-> ClientData(t)]

\* Configure of a resource or of the data source (the four are the same
\* code): the client the component holds afterwards, and the diagnostics.
ComponentConfigure(component, ProviderData, held) ==
    IF ProviderData.kind = "nil"
    THEN [diag |-> NoDiag, client |-> held]
    ELSE IF ProviderData.kind # "client"
         THEN [diag |-> ErrorDiag(IF component = "datasource"
                                  THEN "Unexpected Data Source Configure Type"
                                  ELSE "Unexpected Resource Configure Type", ""),
               client |-> held]
         ELSE [diag |-> NoDiag, client |-> [set |-> TRUE, token |-> ProviderData.token]]

(* ------------------------------ backend ------------------------------- *)

\* The backend service behind sanity.Client: its projects (by id), CORS
\* entries and datasets, and the ids it hands out next.
ProjectIdOf(n) == <<"p">> \o Sprintf_d(n)

\* A *sanity.Project; Metadata is the map the code reads two keys of.
ProjectOf(id, name, org) ==
    [Id |-> id, DisplayName |-> name, OrganizationId |-> org,
     StudioHost |-> EmptyStr,
     Metadata |-> [externalStudioHost |-> EmptyStr, color |-> EmptyStr],
     IsDisabledByUser |-> FALSE, ActivityFeedEnabled |-> TRUE]

\* What a failed call returns in place of a project: no project at all,
\* or a project value the call did not fill.
NilProject == [nil |-> TRUE]
ZeroProject == ProjectOf(EmptyStr, EmptyStr, EmptyStr)

\* sanity.NewBool and the nil *bool of a request field left alone.
NilBool == [nil |-> TRUE, value |-> FALSE]
NewBool(b) == [nil |-> FALSE, value |-> b]

DefaultOrigin(k) == <<"d">> \o Sprintf_d(k)
StudioOrigin(host) == <<"s", "/">> \o host

CORSEntryOf(project, id, origin, allowCredentials) ==
    [Project |-> project, Id |-> id, Origin |-> origin,
     AllowCredentials |-> allowCredentials]

\* Projects.Create: a new project under a fresh id, with `defaults` CORS
\* entries the service provisions by itself.  The service sets aside the
\* ids of all the entries it may provision, so ids are fresh and ascending
\* but not consecutive.
BackendCreateProject(B, req, defaults) ==
    LET id == ProjectIdOf(B.nextProject)
        project == ProjectOf(id, req.DisplayName, req.OrganizationId)
        provisioned == {CORSEntryOf(id, B.nextCors + k - 1, DefaultOrigin(k), TRUE) :
                            k \in 1..defaults}
    IN  [project |-> project,
         backend |-> [B EXCEPT !.projects = [q \in DOMAIN B.projects \cup {id} |->
                                                IF q = id THEN project ELSE B.projects[q]],
                               !.cors = B.cors \cup provisioned,
                               !.nextProject = B.nextProject + 1,
                               !.nextCors = B.nextCors + MaxDefaultCors]]

\* Projects.Update: a partial update; an empty string or a nil *bool leaves
\* the field alone.  Setting the studio host makes the service provision
\* one CORS entry for it.
BackendUpdateProject(B, id, req) ==
    LET old == B.projects[id]
        new == [old EXCEPT
                  !.DisplayName = IF req.DisplayName # EmptyStr THEN req.DisplayName ELSE @,
                  !.StudioHost = IF req.StudioHost # EmptyStr THEN req.StudioHost ELSE @,
                  !.Metadata.externalStudioHost =
                      IF req.ExternalStudioHost # EmptyStr THEN req.ExternalStudioHost ELSE @,
                  !.Metadata.color = IF req.Color # EmptyStr THEN req.Color ELSE @,
                  !.IsDisabledByUser =
                      IF ~req.IsDisabledByUser.nil THEN req.IsDisabledByUser.value ELSE @,
                  !.ActivityFeedEnabled =
                      IF ~req.ActivityFeedEnabled.nil THEN req.ActivityFeedEnabled.value ELSE @]
        hostSet == req.StudioHost # EmptyStr /\ req.StudioHost # old.StudioHost
    IN  [project |-> new,
         backend |-> [B EXCEPT !.projects[id] = new,
                               !.cors = IF hostSet
                                        THEN @ \cup {CORSEntryOf(id, B.nextCors,
                                                        StudioOrigin(req.StudioHost), TRUE)}
                                        ELSE @,
                               !.nextCors = IF hostSet THEN @ + 1 ELSE @]]

\* Projects.Delete: the project goes, and what belongs to it.
BackendDeleteProject(B, id) ==
    [B EXCEPT !.projects = [q \in DOMAIN B.projects \ {id} |-> B.projects[q]],
              !.cors = {e \in B.cors : e.Project # id},
              !.datasets = {d \in B.datasets : d.Project # id}]

RECURSIVE SortById(_)
SortById(entries) ==
    IF entries = {} THEN <<>>
    ELSE LET first == CHOOSE e \in entries : \A f \in entries : e.Id <= f.Id
         IN  <<first>> \o SortById(entries \ {first})

\* Projects.ListCORSEntries
BackendListCORSEntries(B, project) ==
    SortById({e \in B.cors : e.Project = project})

\* Projects.DeleteCORSEntry
BackendDeleteCORSEntry(B, project, id) ==
    [B EXCEPT !.cors = {e \in B.cors : ~(e.Project = project /\ e.Id = id)}]

\* One backend call as the handler issued it.
Call(name, project, arg, ok) == [name |-> name, project |-> project, arg |-> arg, ok |-> ok]

(* --------------------------- handler results -------------------------- *)

NoState == [present |-> FALSE]

\* How a handler ended: the diagnostics of its response, whether it ended
\* in a fault instead of returning (a nil dereference), the backend calls
\* it issued, the backend afterwards, and the state it set (if it set one).
Returned(diag, calls, B) ==
    [diag |-> diag, fault |-> FALSE, calls |-> calls, backend |-> B,
     wrote |-> FALSE, data |-> NoState]

Wrote(calls, B, data) ==
    [diag |-> NoDiag, fault |-> FALSE, calls |-> calls, backend |-> B,
     wrote |-> TRUE, data |-> data]

Faulted(calls, B) ==
    [diag |-> NoDiag, fault |-> TRUE, calls |-> calls, backend |-> B,
     wrote |-> FALSE, data |-> NoState]

ClientError == ErrorDiag("Client Error", "err.Error()")

\* The result of a failed Projects call, by its shape.
FailedProject(shape, id) ==
    IF shape = "nil" THEN NilProject
    ELSE IF shape = "zero" THEN ZeroProject
    ELSE [ZeroProject EXCEPT !.Id = id]

\* The effect of a Projects.Delete call whose outcome the caller ignores.
IgnoredDelete(B, id, ok) ==
    IF ok /\ id \in DOMAIN B.projects THEN BackendDeleteProject(B, id) ELSE B

(* ------------------------- sanity_project resource --------------------- *)

\* The assignments with the id taken from the wrong field.
ProjectModelFrom_IdFromName(project) ==
    [present |-> TRUE,
     Id |-> StringValue(project.DisplayName),
     Name |-> StringValue(project.DisplayName),
     Organization |-> StringValue(project.OrganizationId),
     StudioHost |-> StringValue(project.StudioHost),
     ExternalStudioHost |-> StringValue(project.Metadata.externalStudioHost),
     Color |-> StringValue(project.Metadata.color),
     IsDisabledByUser |-> BoolValue(project.IsDisabledByUser),
     ActivityFeedEnabled |-> BoolValue(project.ActivityFeedEnabled)]

\* The assignments that fill a ProjectResourceModel from a project.
ProjectModelFrom(project) ==
    [present |-> TRUE,
     Id |-> StringValue(project.Id),
     Name |-> StringValue(project.DisplayName),
     Organization |-> StringValue(project.OrganizationId),
     StudioHost |-> StringValue(project.StudioHost),
     ExternalStudioHost |-> StringValue(project.Metadata.externalStudioHost),
     Color |-> StringValue(project.Metadata.color),
     IsDisabledByUser |-> BoolValue(project.IsDisabledByUser),
     ActivityFeedEnabled |-> BoolValue(project.ActivityFeedEnabled)]

\* The loop of Create ending after its first entry.
DeleteListedEntries_FirstOnly(B, project, entries, failAt, calls) ==
    IF entries = <<>> THEN [backend |-> B, calls |-> calls, failed |-> FALSE]
    ELSE [backend |-> BackendDeleteCORSEntry(B, project, Head(entries).Id),
          calls |-> Append(calls, Call("Projects.DeleteCORSEntry", project,
                                       Head(entries).Id, TRUE)),
          failed |-> FALSE]

\* The loop of Create over the listed entries: entry number failAt (if
\* there is one) fails to delete and ends the loop.
RECURSIVE DeleteListedEntries(_, _, _, _, _)
DeleteListedEntries(B, project, entries, failAt, calls) ==
    IF entries = <<>> THEN [backend |-> B, calls |-> calls, failed |-> FALSE]
    ELSE IF failAt = 1
         THEN [backend |-> B,
               calls |-> Append(calls, Call("Projects.DeleteCORSEntry", project,
                                            Head(entries).Id, FALSE)),
               failed |-> TRUE]
         ELSE DeleteListedEntries(
                  BackendDeleteCORSEntry(B, project, Head(entries).Id), project,
                  Tail(entries), IF failAt = 0 THEN 0 ELSE failAt - 1,
                  Append(calls, Call("Projects.DeleteCORSEntry", project,
                                     Head(entries).Id, TRUE)))

\* The update request Create builds from its plan.
CreateUpdateRequest(data) ==
    [DisplayName |-> EmptyStr,
     StudioHost |-> IF ~data.StudioHost.Null THEN data.StudioHost.Value ELSE EmptyStr,
     ExternalStudioHost |->
         IF ~data.ExternalStudioHost.Null THEN data.ExternalStudioHost.Value ELSE EmptyStr,
     Color |-> IF ~data.Color.Null THEN data.Color.Value ELSE EmptyStr,
     IsDisabledByUser |->
         IF ~data.IsDisabledByUser.Null THEN NewBool(data.IsDisabledByUser.Value) ELSE NilBool,
     ActivityFeedEnabled |->
         IF ~data.ActivityFeedEnabled.Null THEN NewBool(data.ActivityFeedEnabled.Value)
         ELSE NilBool]

\* requiresUpdate looking at the string attributes only.
CreateRequiresUpdate_StringsOnly(data) ==
    \/ ~data.StudioHost.Null
    \/ ~data.ExternalStudioHost.Null
    \/ ~data.Color.Null

CreateRequiresUpdate(data) ==
    \/ ~data.StudioHost.Null
    \/ ~data.ExternalStudioHost.Null
    \/ ~data.Color.Null
    \/ ~data.IsDisabledByUser.Null
    \/ ~data.ActivityFeedEnabled.Null

\* ProjectResource.Create, from the follow-up update on: project is the
\* created project, calls the calls issued so far.
CreateFollowUp(B, data, project, calls, ch) ==
    IF ~CreateRequiresUpdate(data) THEN Wrote(calls, B, ProjectModelFrom(project))
    ELSE LET updateReq == CreateUpdateRequest(data)
             ok == ch.update = "ok"
             calls2 == Append(calls, Call("Projects.Update", project.Id, updateReq, ok))
         IN  IF ok
             THEN LET r == BackendUpdateProject(B, project.Id, updateReq)
                  IN  Wrote(calls2, r.backend, ProjectModelFrom(r.project))
             ELSE LET failed == FailedProject(ch.update, project.Id)
                  IN  IF failed = NilProject THEN Faulted(calls2, B)
                      ELSE Returned(ClientError,
                               Append(calls2, Call("Projects.Delete", failed.Id, <<>>, ch.compOk)),
                               IgnoredDelete(B, failed.Id, ch.compOk))

\* ProjectResource.Create: data is the plan, ch the outcomes of the calls.
ProjectResourceCreate(cl, B, data, ch) ==
    IF ~cl.set THEN Faulted(<<>>, B)
    ELSE
    LET createReq == [DisplayName |-> data.Name.Value,
                      OrganizationId |-> data.Organization.Value]
        c1 == <<Call("Projects.Create", EmptyStr, createReq, ch.createOk)>>
    IN  IF ~ch.createOk THEN Returned(ClientError, c1, B)
        ELSE
        LET created == BackendCreateProject(B, createReq, ch.defaults)
            project == created.project
            c2 == Append(c1, Call("Projects.ListCORSEntries", project.Id, <<>>, ch.listOk))
        IN  IF ~ch.listOk THEN Returned(ClientError, c2, created.backend)
            ELSE
            LET entries == BackendListCORSEntries(created.backend, project.Id)
                loop == DeleteListedEntries(created.backend, project.Id, entries,
                                            ch.delFail, c2)
            IN  IF loop.failed
                THEN Returned(ClientError,
                         Append(loop.calls, Call("Projects.Delete", project.Id, <<>>, ch.compOk)),
                         IgnoredDelete(loop.backend, project.Id, ch.compOk))
                ELSE CreateFollowUp(loop.backend, data, project, loop.calls, ch)

\* ProjectResource.Read: data is the prior state.
ProjectResourceRead(cl, B, data, ok) ==
    IF data.Id.Null THEN Returned(ErrorDiag("Project id is null", "Project id is null"), <<>>, B)
    ELSE IF ~cl.set THEN Faulted(<<>>, B)
    ELSE LET found == ok /\ data.Id.Value \in DOMAIN B.projects
             calls == <<Call("Projects.Get", data.Id.Value, <<>>, found)>>
         IN  IF ~found THEN Returned(ClientError, calls, B)
             ELSE Wrote(calls, B, ProjectModelFrom(B.projects[data.Id.Value]))

\* req.State.GetAttribute(ctx, path.Root("studio_host"), &studioHost): a
\* null or unknown attribute does not convert to a Go string; the error is
\* dropped and studioHost keeps its zero value.
StateStudioHost(prior) ==
    IF ~prior.present \/ prior.StudioHost.Null \/ prior.StudioHost.Unknown
    THEN EmptyStr
    ELSE prior.StudioHost.Value

UpdateRequiresUpdate(data, studioHost) ==
    \/ ~data.Name.Null
    \/ (~data.StudioHost.Null /\ studioHost = EmptyStr)
    \/ ~data.ExternalStudioHost.Null
    \/ ~data.Color.Null
    \/ ~data.IsDisabledByUser.Null
    \/ ~data.ActivityFeedEnabled.Null

\* The update request with the plan's studio host whatever the prior state's.
UpdateUpdateRequest_AlwaysStudioHost(data, studioHost) ==
    [DisplayName |-> IF ~data.Name.Null THEN data.Name.Value ELSE EmptyStr,
     StudioHost |-> IF ~data.StudioHost.Null THEN data.StudioHost.Value ELSE EmptyStr,
     ExternalStudioHost |->
         IF ~data.ExternalStudioHost.Null THEN data.ExternalStudioHost.Value ELSE EmptyStr,
     Color |-> IF ~data.Color.Null THEN data.Color.Value ELSE EmptyStr,
     IsDisabledByUser |->
         IF ~data.IsDisabledByUser.Null THEN NewBool(data.IsDisabledByUser.Value) ELSE NilBool,
     ActivityFeedEnabled |->
         IF ~data.ActivityFeedEnabled.Null THEN NewBool(data.ActivityFeedEnabled.Value)
         ELSE NilBool]

\* The update request Update builds from its plan and the prior state's
\* studio host.
UpdateUpdateRequest(data, studioHost) ==
    [DisplayName |-> IF ~data.Name.Null THEN data.Name.Value ELSE EmptyStr,
     StudioHost |-> IF studioHost = EmptyStr /\ ~data.StudioHost.Null
                    THEN data.StudioHost.Value ELSE EmptyStr,
     ExternalStudioHost |->
         IF ~data.ExternalStudioHost.Null THEN data.ExternalStudioHost.Value ELSE EmptyStr,
     Color |-> IF ~data.Color.Null THEN data.Color.Value ELSE EmptyStr,
     IsDisabledByUser |->
         IF ~data.IsDisabledByUser.Null THEN NewBool(data.IsDisabledByUser.Value) ELSE NilBool,
     ActivityFeedEnabled |->
         IF ~data.ActivityFeedEnabled.Null THEN NewBool(data.ActivityFeedEnabled.Value)
         ELSE NilBool]

\* ProjectResource.Update: data is the plan, prior the prior state, ch the
\* outcomes of the calls.
ProjectResourceUpdate(cl, B, data, prior, ch) ==
    IF data.Id.Null THEN Returned(ErrorDiag("Project id is null", "Project id is null"), <<>>, B)
    ELSE
    LET studioHost == StateStudioHost(prior)
    IN  IF ~UpdateRequiresUpdate(data, studioHost) THEN Returned(NoDiag, <<>>, B)
        ELSE IF ~cl.set THEN Faulted(<<>>, B)
        ELSE
        LET updateReq == UpdateUpdateRequest(data, studioHost)
            ok == ch.update = "ok" /\ data.Id.Value \in DOMAIN B.projects
            calls == <<Call("Projects.Update", data.Id.Value, updateReq, ok)>>
        IN  IF ok
            THEN LET r == BackendUpdateProject(B, data.Id.Value, updateReq)
                 IN  Wrote(calls, r.backend, ProjectModelFrom(r.project))
            ELSE LET failed == FailedProject(IF ch.update = "ok" THEN "nil" ELSE ch.update,
                                             data.Id.Value)
                 IN  IF failed = NilProject THEN Faulted(calls, B)
                     ELSE Returned(ClientError,
                              Append(calls, Call("Projects.Delete", failed.Id, <<>>, ch.compOk)),
                              IgnoredDelete(B, failed.Id, ch.compOk))

\* ProjectResource.Delete: data is the prior state.
ProjectResourceDelete(cl, B, data, ok) ==
    IF data.Id.Null THEN Returned(ErrorDiag("Project id is null", "Project id is null"), <<>>, B)
    ELSE IF ~cl.set THEN Faulted(<<>>, B)
    ELSE LET done == ok /\ data.Id.Value \in DOMAIN B.projects
             calls == <<Call("Projects.Delete", data.Id.Value, <<>>, done)>>
         IN  IF ~done THEN Returned(ErrorDiag("Client Error", "project could not be deleted"),
                                    calls, B)
             ELSE Returned(NoDiag, calls, BackendDeleteProject(B, data.Id.Value))

\* A ProjectResourceModel with nothing set: what an import starts from.
NullProjectModel ==
    [present |-> TRUE, Id |-> StringNull, Name |-> StringNull,
     Organization |-> StringNull, StudioHost |-> StringNull,
     ExternalStudioHost |-> StringNull, Color |-> StringNull,
     IsDisabledByUser |-> BoolNull, ActivityFeedEnabled |-> BoolNull]

\* ProjectResource.ImportState: the identifier passes through as the id.
ProjectResourceImportState(B, ID) ==
    Wrote(<<>>, B, [NullProjectModel EXCEPT !.Id = StringValue(ID)])

(* ----------------------- sanity_cors_origin resource -------------------- *)

\* Projects.CreateCORSEntry: a new entry under the next id; a nil
\* allow-credentials is stored as true.
BackendCreateCORSEntry(B, project, req) ==
    LET entry == CORSEntryOf(project, B.nextCors, req.Origin,
                             IF req.AllowCredentials.nil THEN TRUE
                             ELSE req.AllowCredentials.value)
    IN  [entry |-> entry,
         backend |-> [B EXCEPT !.cors = @ \cup {entry},
                               !.nextCors = @ + 1,
                               !.corsCreated = @ + 1]]

\* The request with allow-credentials true whatever the plan has.
CreateCORSEntryRequest_IgnoresPlan(data) ==
    [Origin |-> data.Origin.Value, AllowCredentials |-> NewBool(TRUE)]

\* The sanity.CreateCORSEntryRequest Create builds from its plan.
CreateCORSEntryRequest(data) ==
    [Origin |-> data.Origin.Value,
     AllowCredentials |-> IF ~data.AllowCredentials.Null
                          THEN NewBool(data.AllowCredentials.Value)
                          ELSE NewBool(TRUE)]

\* CORSOriginResource.Create: data is the plan.
CORSOriginResourceCreate(cl, B, data, ok) ==
    IF ~cl.set THEN Faulted(<<>>, B)
    ELSE LET corsReq == CreateCORSEntryRequest(data)
             done == ok /\ data.Project.Value \in DOMAIN B.projects
             calls == <<Call("Projects.CreateCORSEntry", data.Project.Value, corsReq, done)>>
         IN  IF ~done THEN Returned(ClientError, calls, B)
             ELSE LET r == BackendCreateCORSEntry(B, data.Project.Value, corsReq)
                  IN  Wrote(calls, r.backend,
                            [data EXCEPT !.Id = StringValue(Sprintf_d(r.entry.Id)),
                                         !.AllowCredentials = BoolValue(r.entry.AllowCredentials)])

\* The loop of Read taking the first listed entry, whatever its id.
FirstWithId_AnyEntry(entries, rawId) ==
    IF entries = <<>> THEN [found |-> FALSE]
    ELSE [found |-> TRUE, entry |-> Head(entries)]

\* The loop of Read over the listed entries: the first with the id.
RECURSIVE FirstWithId(_, _)
FirstWithId(entries, rawId) ==
    IF entries = <<>> THEN [found |-> FALSE]
    ELSE IF Head(entries).Id = rawId THEN [found |-> TRUE, entry |-> Head(entries)]
    ELSE FirstWithId(Tail(entries), rawId)

\* The loop of ImportState over the listed entries: the first with the origin.
RECURSIVE FirstWithOrigin(_, _)
FirstWithOrigin(entries, origin) ==
    IF entries = <<>> THEN [found |-> FALSE]
    ELSE IF Head(entries).Origin = origin THEN [found |-> TRUE, entry |-> Head(entries)]
    ELSE FirstWithOrigin(Tail(entries), origin)

\* CORSOriginResource.Read: data is the prior state.
CORSOriginResourceRead(cl, B, data, ok) ==
    IF data.Id.Null THEN Returned(ErrorDiag("Entry id is null", "Entry id is null"), <<>>, B)
    ELSE IF data.Project.Null
    THEN Returned(ErrorDiag("Project is null", "Project is null"), <<>>, B)
    ELSE IF ~cl.set THEN Faulted(<<>>, B)
    ELSE
    LET listed == ok /\ data.Project.Value \in DOMAIN B.projects
        calls == <<Call("Projects.ListCORSEntries", data.Project.Value, <<>>, listed)>>
    IN  IF ~listed THEN Returned(ClientError, calls, B)
        ELSE
        LET entries == BackendListCORSEntries(B, data.Project.Value)
            rawId == Sscanf_d(data.Id.Value)
        IN  IF ~rawId.ok THEN Returned(ClientError, calls, B)
            ELSE LET hit == FirstWithId(entries, rawId.value)
                 IN  IF ~hit.found
                     THEN Returned(ErrorDiag("cors entry not found", "cors entry not found"),
                                   calls, B)
                     ELSE Wrote(calls, B,
                                [data EXCEPT
                                   !.AllowCredentials = BoolValue(hit.entry.AllowCredentials),
                                   !.Origin = StringValue(hit.entry.Origin)])

\* An Update that accepts the plan and does nothing.
CORSOriginResourceUpdate_Accepts(B) ==
    Returned(NoDiag, <<>>, B)

\* CORSOriginResource.Update
CORSOriginResourceUpdate(B) ==
    Returned(ErrorDiag("Provider Error", "Update is not supported on CORS entry"), <<>>, B)

\* CORSOriginResource.Delete: data is the prior state.
CORSOriginResourceDelete(cl, B, data, ok) ==
    IF data.Id.Null THEN Returned(ErrorDiag("Entry id is null", "Entry id is null"), <<>>, B)
    ELSE IF data.Project.Null
    THEN Returned(ErrorDiag("Project is null", "Project is null"), <<>>, B)
    ELSE
    LET rawId == Sscanf_d(data.Id.Value)
    IN  IF ~rawId.ok THEN Returned(ClientError, <<>>, B)
        ELSE IF ~cl.set THEN Faulted(<<>>, B)
        ELSE LET done == ok /\ \E e \in B.cors :
                                  e.Project = data.Project.Value /\ e.Id = rawId.value
                 calls == <<Call("Projects.DeleteCORSEntry", data.Project.Value,
                                 rawId.value, done)>>
             IN  IF ~done
                 THEN Returned(ErrorDiag("Client Error", "entry could not be deleted"), calls, B)
                 ELSE Returned(NoDiag, calls,
                               BackendDeleteCORSEntry(B, data.Project.Value, rawId.value))

\* A cut at the last sep of s in place of the first.
Cut_AtLast(s, sep) ==
    LET at == {i \in 1..Len(s) : s[i] = sep}
    IN  IF at = {} THEN [before |-> s, after |-> <<>>, found |-> FALSE]
        ELSE LET i == CHOOSE j \in at : \A k \in at : k <= j
             IN  [before |-> SubSeq(s, 1, i - 1), after |-> SubSeq(s, i + 1, Len(s)),
                  found |-> TRUE]

\* strings.Cut(s, sep) for a one-character sep
RECURSIVE Cut(_, _)
Cut(s, sep) ==
    IF s = <<>> THEN [before |-> <<>>, after |-> <<>>, found |-> FALSE]
    ELSE IF Head(s) = sep THEN [before |-> <<>>, after |-> Tail(s), found |-> TRUE]
    ELSE LET rest == Cut(Tail(s), sep)
         IN  [before |-> <<Head(s)>> \o rest.before,
              after |-> rest.after, found |-> rest.found]

NullCORSOriginModel ==
    [present |-> TRUE, Id |-> StringNull, Origin |-> StringNull,
     AllowCredentials |-> BoolNull, Project |-> StringNull]

\* CORSOriginResource.ImportState
CORSOriginResourceImportState(cl, B, ID, ok) ==
    LET cut == Cut(ID, "/")
        projectId == cut.before
        origin == cut.after
    IN  IF projectId = EmptyStr \/ origin = EmptyStr
        THEN Returned(ErrorDiag("Import Error",
                 "The format for importing a CORS origin is project-id/origin"), <<>>, B)
        ELSE IF ~cl.set THEN Faulted(<<>>, B)
        ELSE
        LET listed == ok /\ projectId \in DOMAIN B.projects
            calls == <<Call("Projects.ListCORSEntries", projectId, <<>>, listed)>>
        IN  IF ~listed THEN Returned(ErrorDiag("Import Error", "err.Error()"), calls, B)
            ELSE LET hit == FirstWithOrigin(BackendListCORSEntries(B, projectId), origin)
                 IN  IF ~hit.found
                     THEN Returned(ErrorDiag("Import Error",
                              "The requested CORS origin was not found"), calls, B)
                     ELSE Wrote(calls, B,
                                [NullCORSOriginModel EXCEPT
                                   !.Id = StringValue(Sprintf_d(hit.entry.Id)),
                                   !.Project = StringValue(projectId)])

(* ------------------------- sanity_dataset resource ---------------------- *)

DefaultAclMode == <<"p", "u", "b">>
PrivateAclMode == <<"p", "r", "i">>

DatasetOf(project, name, aclMode) ==
    [Project |-> project, Name |-> name, AclMode |-> aclMode]

\* Projects.CreateDataset: a request without an acl mode gets the
\* service's default.
BackendCreateDataset(B, project, req) ==
    [B EXCEPT !.datasets = @ \cup {DatasetOf(project, req.Name,
                                       IF req.AclMode = EmptyStr THEN DefaultAclMode
                                       ELSE req.AclMode)}]

\* Projects.DeleteDataset
BackendDeleteDataset(B, project, name) ==
    [B EXCEPT !.datasets = {d \in @ : ~(d.Project = project /\ d.Name = name)}]

HasDataset(B, project, name) ==
    \E d \in B.datasets : d.Project = project /\ d.Name = name

\* DatasetResource.Create: data is the plan, which is written back as it is.
DatasetResourceCreate(cl, B, data, ok) ==
    IF ~cl.set THEN Faulted(<<>>, B)
    ELSE LET req == [Name |-> data.Name.Value, AclMode |-> data.AclMode.Value]
             done == /\ ok
                     /\ data.Project.Value \in DOMAIN B.projects
                     /\ ~HasDataset(B, data.Project.Value, data.Name.Value)
             calls == <<Call("Projects.CreateDataset", data.Project.Value, req, done)>>
         IN  IF ~done THEN Returned(ClientError, calls, B)
             ELSE Wrote(calls, BackendCreateDataset(B, data.Project.Value, req), data)

\* A Read that takes a dataset it does not find out of the state.
DatasetResourceRead_RemovesMissing(cl, B, data, ok) ==
    IF ~cl.set THEN Faulted(<<>>, B)
    ELSE
    LET projectId == data.Project.Value
        listed == ok /\ projectId \in DOMAIN B.projects
        calls == <<Call("Projects.ListDatasets", projectId, <<>>, listed)>>
    IN  IF ~listed THEN Returned(ClientError, calls, B)
        ELSE IF ~HasDataset(B, projectId, data.Name.Value)
             THEN [diag |-> ErrorDiag("dataset not found", "dataset not found"),
                   fault |-> FALSE, calls |-> calls, backend |-> B,
                   wrote |-> TRUE, data |-> NoState]
             ELSE LET dataset == CHOOSE d \in B.datasets :
                                     d.Project = projectId /\ d.Name = data.Name.Value
                  IN  Wrote(calls, B, [data EXCEPT !.AclMode = StringValue(dataset.AclMode)])

\* DatasetResource.Read: data is the prior state.  Dataset names are
\* unique within a project, so the loop finds the one dataset of the name.
DatasetResourceRead(cl, B, data, ok) ==
    IF ~cl.set THEN Faulted(<<>>, B)
    ELSE
    LET projectId == data.Project.Value
        listed == ok /\ projectId \in DOMAIN B.projects
        calls == <<Call("Projects.ListDatasets", projectId, <<>>, listed)>>
    IN  IF ~listed THEN Returned(ClientError, calls, B)
        ELSE IF ~HasDataset(B, projectId, data.Name.Value)
             THEN Returned(ErrorDiag("dataset not found", "dataset not found"), calls, B)
             ELSE LET dataset == CHOOSE d \in B.datasets :
                                     d.Project = projectId /\ d.Name = data.Name.Value
                  IN  Wrote(calls, B, [data EXCEPT !.AclMode = StringValue(dataset.AclMode)])

\* DatasetResource.Update
DatasetResourceUpdate(B) ==
    Returned(ErrorDiag("Provider Error", "Update is not supported on dataset"), <<>>, B)

\* DatasetResource.Delete: data is the prior state.
DatasetResourceDelete(cl, B, data, ok) ==
    IF data.Name.Null THEN Returned(ErrorDiag("Name is null", "Name is null"), <<>>, B)
    ELSE IF data.Project.Null
    THEN Returned(ErrorDiag("Project is null", "Project is null"), <<>>, B)
    ELSE IF ~cl.set THEN Faulted(<<>>, B)
    ELSE LET done == ok /\ HasDataset(B, data.Project.Value, data.Name.Value)
             calls == <<Call("Projects.DeleteDataset", data.Project.Value,
                             data.Name.Value, done)>>
         IN  IF ~done
             THEN Returned(ErrorDiag("Client Error", "dataset could not be deleted"), calls, B)
             ELSE Returned(NoDiag, calls,
                           BackendDeleteDataset(B, data.Project.Value, data.Name.Value))

\* strings.Split(s, sep) for a one-character sep
RECURSIVE Split(_, _)
Split(s, sep) ==
    LET cut == Cut(s, sep)
    IN  IF ~cut.found THEN <<s>> ELSE <<cut.before>> \o Split(cut.after, sep)

NullDatasetModel ==
    [present |-> TRUE, Project |-> StringNull, Name |-> StringNull, AclMode |-> StringNull]

\* DatasetResource.ImportState
DatasetResourceImportState(B, ID) ==
    LET parts == Split(ID, "/")
    IN  IF Len(parts) # 2
        THEN Returned(ErrorDiag("Input Error",
                 "The import identifier for a dataset should be in the form project-id/dataset-name"),
                 <<>>, B)
        ELSE Wrote(<<>>, B, [NullDatasetModel EXCEPT !.Project = StringValue(parts[1]),
                                                     !.Name = StringValue(parts[2])])

(* ------------------------ sanity_project data source -------------------- *)

\* ProjectDataSource.Read: data is the configuration.
ProjectDataSourceRead(cl, B, data, ok) ==
    IF data.Id.Null THEN Returned(ErrorDiag("Project id is null", "Project id is null"), <<>>, B)
    ELSE IF ~cl.set THEN Faulted(<<>>, B)
    ELSE LET found == ok /\ data.Id.Value \in DOMAIN B.projects
             calls == <<Call("Projects.Get", data.Id.Value, <<>>, found)>>
         IN  IF ~found THEN Returned(ClientError, calls, B)
             ELSE LET project == B.projects[data.Id.Value]
                  IN  Wrote(calls, B,
                            [present |-> TRUE,
                             Id |-> StringValue(project.Id),
                             Name |-> StringValue(project.DisplayName),
                             Organization |-> StringValue(project.OrganizationId),
                             StudioHost |-> StringValue(project.StudioHost),
                             ExternalStudioHost |->
                                 StringValue(project.Metadata.externalStudioHost),
                             IsDisabledByUser |-> BoolValue(project.IsDisabledByUser),
                             ActivityFeedEnabled |-> BoolValue(project.ActivityFeedEnabled)])

(* --------------------------- plan computation -------------------------- *)

\* A modifier that leaves the plan as it finds it.
DefaultValueModify_KeepsPlan(AttributeConfig, AttributePlan, DefaultValue) ==
    AttributePlan

\* defaultValueAttributePlanModifier.Modify: the attribute's plan afterwards.
DefaultValueModify(AttributeConfig, AttributePlan, DefaultValue) ==
    IF ~AttributeConfig.Null THEN AttributePlan ELSE DefaultValue

\* The plan of an Optional and Computed string attribute with
\* UseStateForUnknown.  marks: the framework plans a computed attribute the
\* configuration leaves out as unknown; without it the plan keeps null.
PlannedString(config, prior, marks) ==
    IF ~config.Null THEN config
    ELSE IF ~marks THEN StringNull
    ELSE IF ~prior.Null /\ ~prior.Unknown THEN prior
    ELSE StringUnknown

\* The plan of an Optional and Computed bool attribute with DefaultValue.
PlannedBool(config, marks, default) ==
    DefaultValueModify(config,
                       IF ~config.Null THEN config
                       ELSE IF marks THEN BoolUnknown ELSE BoolNull,
                       BoolValue(default))

\* The plan of a sanity_project: GetSchema's attributes, each with its
\* plan modifiers; prior is the prior state (NullProjectModel at create).
ProjectPlan(config, prior, marks) ==
    [present |-> TRUE,
     Id |-> PlannedString(StringNull, prior.Id, marks),
     Name |-> PlannedString(config.Name, prior.Name, marks),
     Organization |-> PlannedString(config.Organization, prior.Organization, marks),
     StudioHost |-> PlannedString(config.StudioHost, prior.StudioHost, marks),
     ExternalStudioHost |->
         PlannedString(config.ExternalStudioHost, prior.ExternalStudioHost, marks),
     Color |-> PlannedString(config.Color, prior.Color, marks),
     IsDisabledByUser |-> PlannedBool(config.IsDisabledByUser, marks, FALSE),
     ActivityFeedEnabled |-> PlannedBool(config.ActivityFeedEnabled, marks, TRUE)]

\* The plan of a sanity_cors_origin at create.
CORSOriginPlan(config, marks) ==
    [present |-> TRUE,
     Id |-> IF marks THEN StringUnknown ELSE StringNull,
     Origin |-> config.Origin,
     AllowCredentials |-> PlannedBool(config.AllowCredentials, marks, TRUE),
     Project |-> config.Project]

\* The plan of a sanity_dataset at create: acl_mode has no default.
DatasetPlan(config, marks) ==
    [present |-> TRUE,
     Project |-> config.Project,
     Name |-> config.Name,
     AclMode |-> PlannedString(config.AclMode, StringNull, marks)]

(* ------------------------------- inputs -------------------------------- *)

\* Identifiers given to ImportState: every string over these characters
\* up to this length.
MaxImportLen == 4
ImportChars == {"q", "/", "o"}

ImportIDs == UNION {[1..n -> ImportChars] : n \in 0..MaxImportLen}

ExistingProject == <<"q">>

\* Identifiers given to the project's ImportState, which passes them on
\* whole: the id of a project, an id of none, and the empty string.
ProjectImportIDs == {ExistingProject, <<"o">>, EmptyStr}

OptionalStrings(v) == {StringNull, StringValue(v)}
OptionalBools == {BoolNull, BoolValue(TRUE), BoolValue(FALSE)}

OptionalProjectAttributes ==
    {"Name", "StudioHost", "ExternalStudioHost", "Color", "IsDisabledByUser",
     "ActivityFeedEnabled"}

Configured(config) == {a \in OptionalProjectAttributes : ~config[a].Null}

ProjectConfigs ==
    {config \in [Name : OptionalStrings(<<"n">>),
                 Organization : {StringValue(<<"g">>)},
                 StudioHost : OptionalStrings(<<"h">>),
                 ExternalStudioHost : OptionalStrings(<<"x">>),
                 Color : OptionalStrings(<<"c">>),
                 IsDisabledByUser : OptionalBools,
                 ActivityFeedEnabled : OptionalBools] :
        Cardinality(Configured(config)) <= MaxConfigured}

CORSOriginConfigs ==
    [Origin : {StringValue(<<"n">>)},
     AllowCredentials : OptionalBools,
     Project : {StringValue(ExistingProject), StringValue(<<"o">>)}]

DatasetConfigs ==
    [Project : {StringValue(ExistingProject), StringValue(<<"o">>)},
     Name : {StringValue(<<"n">>)},
     AclMode : {StringNull, StringValue(PrivateAclMode)}]

DataSourceConfigs ==
    {[Id |-> id] : id \in {StringNull, StringValue(ExistingProject), StringValue(<<"o">>)}}

\* The outcomes of the calls of Project Create and Update, each field
\* left at its first value where the handler never gets to the call.
ProjectOutcomes ==
    {ch \in [createOk : BOOLEAN, defaults : 0..MaxDefaultCors, listOk : BOOLEAN,
             delFail : 0..MaxDefaultCors, update : {"ok", "nil", "zero", "project"},
             compOk : BOOLEAN] :
        /\ ~ch.createOk => ch.defaults = 0 /\ ch.listOk
        /\ ~ch.listOk => ch.delFail = 0
        /\ ch.delFail <= ch.defaults
        /\ ch.delFail # 0 => ch.update = "ok"
        /\ (ch.delFail = 0 /\ ch.update \in {"ok", "nil"}) => ch.compOk}

UpdateOutcomes ==
    {ch \in ProjectOutcomes : ch.createOk /\ ch.defaults = 0 /\ ch.listOk /\ ch.delFail = 0}

(* ------------------------------- actions ------------------------------- *)

InitBackend ==
    [projects |-> [q \in {ExistingProject} |->
                      ProjectOf(ExistingProject, <<"e">>, <<"g">>)],
     cors |-> {CORSEntryOf(ExistingProject, 1, <<"o">>, TRUE),
               CORSEntryOf(ExistingProject, 2, <<"/", "o">>, FALSE)},
     datasets |-> {DatasetOf(ExistingProject, <<"o">>, PrivateAclMode)},
     nextProject |-> 1, nextCors |-> 3, corsCreated |-> 0]

Scopes == {"project", "cors", "dataset", "datasource"}

\* The state the host holds for the instance at the start: none, or one
\* with no attribute set.
NullModel(s) ==
    IF s = "project" THEN NullProjectModel
    ELSE IF s = "cors" THEN NullCORSOriginModel
    ELSE NullDatasetModel

\* The state of a CORS origin whose entry has since been removed from the
\* project by other means.
RemovedCORSOriginModel ==
    [present |-> TRUE, Id |-> StringValue(<<"9">>), Origin |-> StringValue(<<"n">>),
     AllowCredentials |-> BoolValue(TRUE), Project |-> StringValue(ExistingProject)]

\* The states the host may hold for the instance at the start: none, one
\* with no attribute set, and for a CORS origin one of a removed entry.
InitStates(s) ==
    IF s = "datasource" THEN {NoState}
    ELSE IF s = "cors" THEN {NoState, NullModel(s), RemovedCORSOriginModel}
    ELSE {NoState, NullModel(s)}

NoInput == [none |-> TRUE]

\* SANITY_TOKEN at the start.  No handler reads the token, so the
\* behaviours of the resources all start from the one environment in
\* which only a configured token makes a client.
EnvOf(s) == IF s = "datasource" THEN EnvTokens ELSE {EmptyStr}

Init ==
    /\ scope \in Scopes
    /\ env \in EnvOf(scope)
    /\ marksUnknown \in BOOLEAN
    /\ phase = "start"
    /\ providerData = [ResourceData |-> NilData, DataSourceData |-> NilData]
    /\ client = NilClient
    /\ backend = InitBackend
    /\ state \in InitStates(scope)
    /\ last = [op |-> "none", diag |-> NoDiag, fault |-> FALSE, calls |-> <<>>,
               wrote |-> FALSE, input |-> NoInput]

\* The host configures the provider, once.
ProviderConfigure ==
    /\ phase = "start"
    /\ \E token \in ConfigTokens :
          LET r == SanityProviderConfigure(token, env)
          IN  /\ providerData' = [ResourceData |-> r.ResourceData,
                                  DataSourceData |-> r.DataSourceData]
              /\ last' = [op |-> "ProviderConfigure", diag |-> r.diag, fault |-> FALSE,
                          calls |-> <<>>, wrote |-> FALSE, input |-> token]
    /\ phase' = "provider"
    /\ UNCHANGED <<scope, env, marksUnknown, client, backend, state>>

\* The host hands what the provider published to the component, unless
\* the provider's Configure returned an error.
Configure ==
    /\ phase = "provider"
    /\ ~last.diag.error
    /\ LET r == ComponentConfigure(scope,
                    IF scope = "datasource" THEN providerData.DataSourceData
                    ELSE providerData.ResourceData, client)
       IN  /\ client' = r.client
           /\ last' = [op |-> "Configure", diag |-> r.diag, fault |-> FALSE,
                       calls |-> <<>>, wrote |-> FALSE, input |-> NoInput]
    /\ phase' = "ready"
    /\ UNCHANGED <<scope, env, marksUnknown, providerData, backend, state>>

\* A handler has run: the backend is as it left it, the host holds `held`.
Finish(op, res, input, held) ==
    /\ backend' = res.backend
    /\ state' = IF res.fault THEN state ELSE held
    /\ phase' = IF res.fault THEN "crashed" ELSE phase
    /\ last' = [op |-> op, diag |-> res.diag, fault |-> res.fault, calls |-> res.calls,
                wrote |-> res.wrote, input |-> input]
    /\ UNCHANGED <<scope, env, marksUnknown, providerData, client>>

\* After Create, Read, Update and ImportState the host holds the state the
\* handler set, or what it held.
Kept(res) == IF res.wrote THEN res.data ELSE state

\* After a Delete without error the host drops the state.
Dropped(res) == IF res.diag.error THEN state ELSE NoState

Ready(s) == phase = "ready" /\ scope = s

ProjectCreate ==
    /\ Ready("project") /\ ~state.present
    /\ \E config \in ProjectConfigs, ch \in ProjectOutcomes :
          /\ ch.createOk => backend.nextProject <= MaxProjects
          /\ LET plan == ProjectPlan(config, NullProjectModel, marksUnknown)
                 res == ProjectResourceCreate(client, backend, plan, ch)
             IN  Finish("ProjectCreate", res, config, Kept(res))

ProjectRead ==
    /\ Ready("project") /\ state.present
    /\ \E ok \in BOOLEAN :
          LET res == ProjectResourceRead(client, backend, state, ok)
          IN  Finish("ProjectRead", res, NoInput, Kept(res))

ProjectUpdate ==
    /\ Ready("project") /\ state.present
    /\ \E config \in ProjectConfigs, ch \in UpdateOutcomes :
          LET plan == ProjectPlan(config, state, marksUnknown)
              res == ProjectResourceUpdate(client, backend, plan, state, ch)
          IN  /\ ch.update = "ok" => plan.Id.Value \in DOMAIN backend.projects
              /\ Finish("ProjectUpdate", res, config, Kept(res))

ProjectDelete ==
    /\ Ready("project") /\ state.present
    /\ \E ok \in BOOLEAN :
          LET res == ProjectResourceDelete(client, backend, state, ok)
          IN  Finish("ProjectDelete", res, NoInput, Dropped(res))

ProjectImportState ==
    /\ Ready("project") /\ ~state.present
    /\ \E ID \in ProjectImportIDs :
          LET res == ProjectResourceImportState(backend, ID)
          IN  Finish("ProjectImportState", res, ID, Kept(res))

CORSOriginCreate ==
    /\ Ready("cors") /\ ~state.present
    /\ \E config \in CORSOriginConfigs, ok \in BOOLEAN :
          /\ ok => backend.corsCreated < MaxCorsCreates
          /\ LET plan == CORSOriginPlan(config, marksUnknown)
                 res == CORSOriginResourceCreate(client, backend, plan, ok)
             IN  Finish("CORSOriginCreate", res, config, Kept(res))

CORSOriginRead ==
    /\ Ready("cors") /\ state.present
    /\ \E ok \in BOOLEAN :
          LET res == CORSOriginResourceRead(client, backend, state, ok)
          IN  Finish("CORSOriginRead", res, NoInput, Kept(res))

CORSOriginUpdate ==
    /\ Ready("cors") /\ state.present
    /\ \E config \in CORSOriginConfigs :
          LET res == CORSOriginResourceUpdate(backend)
          IN  Finish("CORSOriginUpdate", res, config, Kept(res))

CORSOriginDelete ==
    /\ Ready("cors") /\ state.present
    /\ \E ok \in BOOLEAN :
          LET res == CORSOriginResourceDelete(client, backend, state, ok)
          IN  Finish("CORSOriginDelete", res, NoInput, Dropped(res))

CORSOriginImportState ==
    /\ Ready("cors") /\ ~state.present
    /\ \E ID \in ImportIDs, ok \in BOOLEAN :
          LET res == CORSOriginResourceImportState(client, backend, ID, ok)
          IN  Finish("CORSOriginImportState", res, ID, Kept(res))

DatasetCreate ==
    /\ Ready("dataset") /\ ~state.present
    /\ \E config \in DatasetConfigs, ok \in BOOLEAN :
          LET plan == DatasetPlan(config, marksUnknown)
              res == DatasetResourceCreate(client, backend, plan, ok)
          IN  Finish("DatasetCreate", res, config, Kept(res))

DatasetRead ==
    /\ Ready("dataset") /\ state.present
    /\ \E ok \in BOOLEAN :
          LET res == DatasetResourceRead(client, backend, state, ok)
          IN  Finish("DatasetRead", res, NoInput, Kept(res))

DatasetUpdate ==
    /\ Ready("dataset") /\ state.present
    /\ \E config \in DatasetConfigs :
          LET res == DatasetResourceUpdate(backend)
          IN  Finish("DatasetUpdate", res, config, Kept(res))

DatasetDelete ==
    /\ Ready("dataset") /\ state.present
    /\ \E ok \in BOOLEAN :
          LET res == DatasetResourceDelete(client, backend, state, ok)
          IN  Finish("DatasetDelete", res, NoInput, Dropped(res))

DatasetImportState ==
    /\ Ready("dataset") /\ ~state.present
    /\ \E ID \in ImportIDs :
          LET res == DatasetResourceImportState(backend, ID)
          IN  Finish("DatasetImportState", res, ID, Kept(res))

DataSourceRead ==
    /\ Ready("datasource")
    /\ \E config \in DataSourceConfigs, ok \in BOOLEAN :
          LET res == ProjectDataSourceRead(client, backend, config, ok)
          IN  Finish("DataSourceRead", res, config, Kept(res))

Next ==
    \/ ProviderConfigure
    \/ Configure
    \/ ProjectCreate
    \/ ProjectRead
    \/ ProjectUpdate
    \/ ProjectDelete
    \/ ProjectImportState
    \/ CORSOriginCreate
    \/ CORSOriginRead
    \/ CORSOriginUpdate
    \/ CORSOriginDelete
    \/ CORSOriginImportState
    \/ DatasetCreate
    \/ DatasetRead
    \/ DatasetUpdate
    \/ DatasetDelete
    \/ DatasetImportState
    \/ DataSourceRead

Spec == Init /\ [][Next]_vars

(* ------------------------------- claims -------------------------------- *)

\* The calls of the last operation with the name, in order.
CallsNamed(l, name) == SelectSeq(l.calls, LAMBDA c : c.name = name)

Range(seq) == {seq[i] : i \in 1..Len(seq)}

\* The CORS entries the backend holds for a project.
EntriesOf(B, project) == {e \in B.cors : e.Project = project}

\* The ids the backend has given to projects: the existing project's and
\* those of its create responses so far.
IssuedIds(B) == {ExistingProject} \cup {ProjectIdOf(k) : k \in 1..(B.nextProject - 1)}

CreatedProject == last.op = "ProjectCreate" /\ last.wrote

\* C1, as stated: after a successful Project Create whose plan sets
\* studio_host, the backend holds no CORS entry for the new project.
C1_NoResidualCORSEntries ==
    (CreatedProject /\ ~last.input.StudioHost.Null)
        => EntriesOf(backend, state.Id.Value) = {}

\* C1, amended: after a successful Project Create every CORS entry the
\* project had when Create listed them is gone; with studio_host set, the
\* one entry the backend provisioned when the follow-up update set the
\* studio host is still there, and it is the only one.
C1_OnlyStudioHostEntryRemains ==
    CreatedProject
        => LET remaining == EntriesOf(backend, state.Id.Value)
           IN  IF last.input.StudioHost.Null
               THEN remaining = {}
               ELSE /\ Cardinality(remaining) = 1
                    /\ \A e \in remaining :
                          e.Origin = StudioOrigin(last.input.StudioHost.Value)

\* A Create that purged two provisioned entries and then set the studio host.
C1_Witness ==
    /\ CreatedProject
    /\ ~last.input.StudioHost.Null
    /\ Len(CallsNamed(last, "Projects.DeleteCORSEntry")) = 2
    /\ Len(CallsNamed(last, "Projects.Update")) = 1

\* C2: in Project Create, after the create call succeeded, a failure of
\* the listing call or of a call deleting a listed entry is followed by a
\* compensating Projects.Delete of the new project.
C2_CleanupFailureCompensated ==
    (/\ last.op = "ProjectCreate"
     /\ ~last.fault
     /\ \E c \in Range(last.calls) : c.name = "Projects.Create" /\ c.ok
     /\ \E c \in Range(last.calls) :
           c.name \in {"Projects.ListCORSEntries", "Projects.DeleteCORSEntry"} /\ ~c.ok)
        => LET final == last.calls[Len(last.calls)]
           IN  /\ final.name = "Projects.Delete"
               /\ final.project = ProjectIdOf(backend.nextProject - 1)

\* C3: a failed update call in Project Update ends in an error diagnostic
\* and not in a fault, with one compensating delete and no state written,
\* whatever the failed call returned.
C3_FailedUpdateHandled ==
    (/\ last.op = "ProjectUpdate"
     /\ \E c \in Range(last.calls) : c.name = "Projects.Update" /\ ~c.ok)
        => /\ ~last.fault
           /\ last.diag.error
           /\ ~last.wrote
           /\ Len(CallsNamed(last, "Projects.Delete")) = 1

\* C4: no operation ends in an uncontrolled fault.
C4_NoUncontrolledFault == ~last.fault

Creates == {"ProjectCreate", "CORSOriginCreate", "DatasetCreate"}
Reads == {"ProjectRead", "CORSOriginRead", "DatasetRead"}

\* C5: a Read right after a successful Create writes the state Create wrote.
C5_ReadAfterCreateIsIdentity ==
    [][(last.op \in Creates /\ last.wrote /\ last'.op \in Reads /\ last'.wrote)
          => state' = state]_vars

\* C6: the update request of Project Update has the plan's studio host when
\* the prior state's studio host is empty and the plan's is not null, and
\* has none otherwise; with a studio host in the prior state no project's
\* studio host changes.
C6_StudioHostSentOnlyWhenUnset ==
    [][last'.op = "ProjectUpdate"
          => LET plan == ProjectPlan(last'.input, state, marksUnknown)
                 studioHost == StateStudioHost(state)
             IN  /\ \A c \in Range(CallsNamed(last', "Projects.Update")) :
                       c.arg.StudioHost =
                           IF studioHost = EmptyStr /\ ~plan.StudioHost.Null
                           THEN plan.StudioHost.Value
                           ELSE EmptyStr
                 /\ studioHost # EmptyStr
                       => \A id \in DOMAIN backend.projects \cap DOMAIN backend'.projects :
                             backend'.projects[id].StudioHost = backend.projects[id].StudioHost
      ]_vars

\* An Update that succeeded with a studio host configured and sent none:
\* the prior state had one.
C6_Witness ==
    /\ last.op = "ProjectUpdate"
    /\ last.wrote
    /\ ~last.input.StudioHost.Null
    /\ \E c \in Range(last.calls) : c.name = "Projects.Update" /\ c.arg.StudioHost = EmptyStr

\* C7: with a token that is not unknown, provider Configure takes the
\* configured value, or SANITY_TOKEN when none is configured; an empty
\* token is the token-empty error and no client, any other is one client
\* of that token for resources and data sources.  No client has an empty
\* token.
C7_TokenResolution ==
    /\ (last.op = "ProviderConfigure" /\ ~last.input.Unknown)
          => LET effective == IF last.input.Null THEN env ELSE last.input.Value
             IN  IF effective = EmptyStr
                 THEN /\ last.diag.error
                      /\ last.diag.summary = "Unable to find token"
                      /\ providerData.ResourceData = NilData
                      /\ providerData.DataSourceData = NilData
                 ELSE /\ ~last.diag.error
                      /\ providerData.ResourceData = ClientData(effective)
                      /\ providerData.DataSourceData = ClientData(effective)
    /\ providerData.ResourceData.kind = "client"
          => providerData.ResourceData.token # EmptyStr
    /\ providerData.DataSourceData.kind = "client"
          => providerData.DataSourceData.token # EmptyStr
    /\ client.set => client.token # EmptyStr

\* No token configured and SANITY_TOKEN set: a client of the environment's token.
C7_Witness ==
    /\ last.op = "ProviderConfigure"
    /\ last.input.Null
    /\ env # EmptyStr
    /\ providerData.ResourceData = ClientData(env)

\* C8: a read, update or delete that finds a required identifier null
\* returns an error diagnostic and issues no backend call.
C8_NullIdentifierStopsBeforeCalls ==
    [][(/\ client.set
        /\ \/ last'.op \in {"ProjectRead", "ProjectDelete"} /\ state.Id.Null
           \/ /\ last'.op = "ProjectUpdate"
              /\ ProjectPlan(last'.input, state, marksUnknown).Id.Null
           \/ /\ last'.op \in {"CORSOriginRead", "CORSOriginUpdate", "CORSOriginDelete"}
              /\ (state.Id.Null \/ state.Project.Null)
           \/ /\ last'.op \in {"DatasetRead", "DatasetUpdate", "DatasetDelete"}
              /\ (state.Name.Null \/ state.Project.Null)
           \/ last'.op = "DataSourceRead" /\ last'.input.Id.Null)
          => last'.diag.error /\ last'.calls = <<>>
      ]_vars

\* C9, as stated: the id in a project's state is an id the backend gave.
C9_IdFromBackend ==
    (scope = "project" /\ state.present /\ ~state.Id.Null)
        => state.Id.Value \in IssuedIds(backend)

\* C9, amended: the id in a state that Create, Read or Update wrote is the
\* id of the project in the backend's response, for Create the id of the
\* create response; ImportState writes the identifier it is given.
C9_IdFromResponseOrImport ==
    /\ (last.op \in {"ProjectCreate", "ProjectRead", "ProjectUpdate"} /\ last.wrote)
          => /\ state.Id.Value \in IssuedIds(backend)
             /\ state.Id.Value \in DOMAIN backend.projects
             /\ backend.projects[state.Id.Value].Id = state.Id.Value
    /\ CreatedProject => state.Id.Value = ProjectIdOf(backend.nextProject - 1)
    /\ last.op = "ProjectImportState" => state.Id = StringValue(last.input)

\* A Read that confirmed an imported id.
C9_Witness ==
    /\ last.op = "ProjectRead"
    /\ last.wrote
    /\ state.Id.Value = ExistingProject

\* C10: Update of a CORS origin or of a dataset returns an error, calls
\* nothing and writes nothing; and no step changes a field of a CORS entry
\* or of a dataset the backend keeps.
C10_NoInPlaceUpdate ==
    [][/\ last'.op \in {"CORSOriginUpdate", "DatasetUpdate"}
          => /\ last'.diag.error
             /\ last'.calls = <<>>
             /\ ~last'.wrote
             /\ state' = state
             /\ backend' = backend
       /\ \A e \in backend.cors, f \in backend'.cors :
             (e.Project = f.Project /\ e.Id = f.Id) => e = f
       /\ \A d \in backend.datasets, f \in backend'.datasets :
             (d.Project = f.Project /\ d.Name = f.Name) => d = f
      ]_vars

\* An Update of a CORS origin whose plan changes allow_credentials.
C10_Witness ==
    /\ last.op = "CORSOriginUpdate"
    /\ ~state.Id.Null
    /\ ~last.input.AllowCredentials.Null
    /\ last.input.AllowCredentials.Value # state.AllowCredentials.Value

\* C11: a CORS origin Read with id and project set whose listing call
\* succeeded: if the project has an entry whose id in decimal is the stored
\* id, Read writes a state with that entry's origin and allow-credentials
\* and the id and project it had; if it has none, Read returns the error
\* "cors entry not found" and the state stays as it was.
C11_ReadFindsEntryById ==
    [][(/\ last'.op = "CORSOriginRead"
        /\ ~state.Id.Null /\ ~state.Project.Null
        /\ \E c \in Range(last'.calls) : c.name = "Projects.ListCORSEntries" /\ c.ok)
          => LET hits == {e \in EntriesOf(backend, state.Project.Value) :
                             Sprintf_d(e.Id) = state.Id.Value}
             IN  IF hits # {}
                 THEN /\ last'.wrote /\ ~last'.diag.error
                      /\ \E e \in hits :
                            state' = [state EXCEPT
                                        !.Origin = StringValue(e.Origin),
                                        !.AllowCredentials = BoolValue(e.AllowCredentials)]
                 ELSE /\ last'.diag.error
                      /\ last'.diag.summary = "cors entry not found"
                      /\ ~last'.wrote
                      /\ state' = state
      ]_vars

\* A Read that found the second of two listed entries by its id.
C11_Witness ==
    /\ last.op = "CORSOriginRead"
    /\ last.wrote
    /\ state.Id.Value = <<"2">>
    /\ state.Origin = StringValue(<<"/", "o">>)
    /\ state.AllowCredentials = BoolValue(FALSE)

\* The places of the separator in an import identifier.
SeparatorsOf(ID) == {i \in 1..Len(ID) : ID[i] = "/"}

\* C12: CORS origin ImportState takes what stands before the first '/' of
\* the identifier as the project and all that follows it as the origin.
\* With no '/', or nothing before or nothing after the first, it returns
\* the import error, calls nothing and sets nothing.  Otherwise it lists
\* the project's entries and, the listing done, an entry of exactly that
\* origin gives the state its id in decimal and the project; with no such
\* entry it returns the import error and sets nothing.
C12_ImportSplitsAtFirstSeparator ==
    (last.op = "CORSOriginImportState" /\ ~last.fault)
        => LET ID == last.input
               at == SeparatorsOf(ID)
               first == CHOOSE i \in at : \A k \in at : i <= k
               projectId == SubSeq(ID, 1, first - 1)
               origin == SubSeq(ID, first + 1, Len(ID))
           IN  IF at = {} \/ first = 1 \/ first = Len(ID)
               THEN /\ last.diag.error /\ last.diag.summary = "Import Error"
                    /\ last.calls = <<>>
                    /\ ~last.wrote /\ ~state.present
               ELSE /\ Len(last.calls) = 1
                    /\ last.calls[1].name = "Projects.ListCORSEntries"
                    /\ last.calls[1].project = projectId
                    /\ last.calls[1].ok
                          => LET hits == {e \in EntriesOf(backend, projectId) :
                                             e.Origin = origin}
                             IN  IF hits # {}
                                 THEN /\ last.wrote /\ ~last.diag.error
                                      /\ \E e \in hits : state.Id = StringValue(Sprintf_d(e.Id))
                                      /\ state.Project = StringValue(projectId)
                                 ELSE /\ last.diag.error
                                      /\ last.diag.summary = "Import Error"
                                      /\ ~last.wrote /\ ~state.present

\* An import whose origin has a '/' of its own.
C12_Witness ==
    /\ last.op = "CORSOriginImportState"
    /\ last.input = <<"q", "/", "/", "o">>
    /\ last.wrote
    /\ state.Id = StringValue(<<"2">>)
    /\ state.Project = StringValue(ExistingProject)

\* C13: Dataset ImportState sets project and name when the identifier has
\* one '/' with a project before it and a name after it, and for every
\* other identifier returns the input error and sets nothing.
C13_ImportRejectsMalformed ==
    last.op = "DatasetImportState"
        => LET ID == last.input
               at == SeparatorsOf(ID)
               sep == CHOOSE i \in at : TRUE
           IN  IF Cardinality(at) = 1 /\ sep # 1 /\ sep # Len(ID)
               THEN /\ last.wrote /\ ~last.diag.error
                    /\ state.Project = StringValue(SubSeq(ID, 1, sep - 1))
                    /\ state.Name = StringValue(SubSeq(ID, sep + 1, Len(ID)))
               ELSE /\ last.diag.error /\ last.diag.summary = "Input Error"
                    /\ ~last.wrote /\ ~state.present

\* C14: the create request of CORS origin Create carries allow-credentials
\* true when the configuration has none and the configured value when it
\* has one; with false configured, the state written after the create
\* holds false.
C14_AllowCredentialsDefaultsToTrue ==
    (last.op = "CORSOriginCreate" /\ ~last.fault)
        => /\ Len(last.calls) = 1
           /\ last.calls[1].name = "Projects.CreateCORSEntry"
           /\ last.calls[1].arg.AllowCredentials =
                  NewBool(IF last.input.AllowCredentials.Null THEN TRUE
                          ELSE last.input.AllowCredentials.Value)
           /\ (last.wrote /\ last.input.AllowCredentials = BoolValue(FALSE))
                  => /\ state.AllowCredentials = BoolValue(FALSE)
                     /\ \E e \in EntriesOf(backend, state.Project.Value) :
                           Sprintf_d(e.Id) = state.Id.Value /\ ~e.AllowCredentials

\* A create with allow_credentials = false configured.
C14_Witness ==
    /\ last.op = "CORSOriginCreate"
    /\ last.wrote
    /\ last.input.AllowCredentials = BoolValue(FALSE)
    /\ state.AllowCredentials = BoolValue(FALSE)

\* The optional attributes of a project other than its name that a
\* configuration sets.
ExplicitlySet(config) == Configured(config) \ {"Name"}

\* C15: a Project Create from a configuration with none of the optional
\* attributes writes a state with disabled_by_user false and
\* activity_feed_enabled true.
C15_DefaultsInCreatedState ==
    (CreatedProject /\ ExplicitlySet(last.input) = {})
        => /\ state.IsDisabledByUser = BoolValue(FALSE)
           /\ state.ActivityFeedEnabled = BoolValue(TRUE)

\* A create from a name and an organization alone.
C15_Witness ==
    /\ CreatedProject
    /\ Configured(last.input) = {"Name"}
    /\ state.Name = StringValue(<<"n">>)
    /\ state.IsDisabledByUser = BoolValue(FALSE)
    /\ state.ActivityFeedEnabled = BoolValue(TRUE)

\* Project Create got as far as its follow-up update: the create call, the
\* listing and every deletion of a listed entry succeeded.
ReachedFollowUp ==
    /\ last.op = "ProjectCreate"
    /\ last.calls # <<>>
    /\ \A c \in Range(last.calls) :
          c.name \in {"Projects.Create", "Projects.ListCORSEntries",
                      "Projects.DeleteCORSEntry"} => c.ok

\* C16, as stated: Project Create issues the follow-up update exactly when
\* the configuration sets an optional attribute, at most once, and the
\* request has the attributes the configuration sets and no others.
C16_UpdateOnlyWhenConfigured ==
    last.op = "ProjectCreate"
        => LET updates == CallsNamed(last, "Projects.Update")
               config == last.input
           IN  /\ Len(updates) <= 1
               /\ ReachedFollowUp
                     => /\ Len(updates) = 1 <=> ExplicitlySet(config) # {}
                        /\ \A c \in Range(updates) :
                              c.arg = [DisplayName |-> EmptyStr,
                                       StudioHost |-> config.StudioHost.Value,
                                       ExternalStudioHost |-> config.ExternalStudioHost.Value,
                                       Color |-> config.Color.Value,
                                       IsDisabledByUser |->
                                           IF config.IsDisabledByUser.Null THEN NilBool
                                           ELSE NewBool(config.IsDisabledByUser.Value),
                                       ActivityFeedEnabled |->
                                           IF config.ActivityFeedEnabled.Null THEN NilBool
                                           ELSE NewBool(config.ActivityFeedEnabled.Value)]

\* C16, amended: Project Create issues at most one follow-up update, and
\* issues it whenever it gets that far, whatever the configuration sets:
\* the plan always has disabled_by_user and activity_feed_enabled, by
\* their defaults.  The request has the string attributes the
\* configuration sets, and both flags: the configured value, or the
\* default (false, true) where none is configured.
C16_UpdateAlwaysWithDefaults ==
    last.op = "ProjectCreate"
        => LET updates == CallsNamed(last, "Projects.Update")
               config == last.input
           IN  /\ Len(updates) <= 1
               /\ ReachedFollowUp
                     => /\ Len(updates) = 1
                        /\ updates[1].arg =
                              [DisplayName |-> EmptyStr,
                               StudioHost |-> config.StudioHost.Value,
                               ExternalStudioHost |-> config.ExternalStudioHost.Value,
                               Color |-> config.Color.Value,
                               IsDisabledByUser |->
                                   NewBool(IF config.IsDisabledByUser.Null THEN FALSE
                                           ELSE config.IsDisabledByUser.Value),
                               ActivityFeedEnabled |->
                                   NewBool(IF config.ActivityFeedEnabled.Null THEN TRUE
                                           ELSE config.ActivityFeedEnabled.Value)]

\* A create from a name and an organization alone that sent the defaults.
C16_Witness ==
    /\ ReachedFollowUp
    /\ ExplicitlySet(last.input) = {}
    /\ Len(CallsNamed(last, "Projects.Update")) = 1
    /\ CallsNamed(last, "Projects.Update")[1].arg.ActivityFeedEnabled = NewBool(TRUE)
    /\ CallsNamed(last, "Projects.Update")[1].arg.IsDisabledByUser = NewBool(FALSE)

\* C17: in Project Create, when the deletion of a listed entry or the
\* follow-up update fails, Create ends with one Projects.Delete of the new
\* project as its last call and returns the error of the failed call.
C17_OneCompensatingDelete ==
    (/\ last.op = "ProjectCreate"
     /\ \E c \in Range(last.calls) :
           c.name \in {"Projects.DeleteCORSEntry", "Projects.Update"} /\ ~c.ok)
        => /\ ~last.fault
           /\ last.diag = ClientError
           /\ ~last.wrote
           /\ Len(CallsNamed(last, "Projects.Delete")) = 1
           /\ last.calls[Len(last.calls)].name = "Projects.Delete"
           /\ last.calls[Len(last.calls)].project = ProjectIdOf(backend.nextProject - 1)

StateWriters ==
    {"ProjectCreate", "ProjectRead", "ProjectUpdate", "ProjectImportState",
     "CORSOriginCreate", "CORSOriginRead", "CORSOriginUpdate", "CORSOriginImportState",
     "DatasetCreate", "DatasetRead", "DatasetUpdate", "DatasetImportState",
     "DataSourceRead"}

\* C18: a Create, Read, Update or ImportState of a resource, or a Read of
\* the data source, that returns an error has set no state: the host
\* holds the state it held before, so none after a Create.
C18_ErrorWritesNoState ==
    [][(last'.op \in StateWriters /\ last'.diag.error)
          => /\ ~last'.wrote
             /\ state' = state
             /\ last'.op \in Creates => ~state'.present
      ]_vars

\* A Create that made a project, failed afterwards and left it in the
\* backend, in no state.
C18_Witness ==
    /\ last.op = "ProjectCreate"
    /\ last.diag.error
    /\ ~state.present
    /\ ProjectIdOf(1) \in DOMAIN backend.projects

====
